---- MODULE Spec2Model ----
(***************************************************************************)
(* State-machine model of the ESP32-CAM dual-network firmware              *)
(* (ESP32_Cam_Dual_Network.ino): the connectivity logic of setup() and     *)
(* loop(), and the multipart frame streaming loop of handleStream().       *)
(*                                                                         *)
(* The firmware runs on one cooperative context; `pc` is the position of   *)
(* that context in the sketch.  The WiFi driver, the HTTP client's socket  *)
(* and the camera are the environment: the link status and the socket      *)
(* state change asynchronously, captures and encodings succeed or fail.    *)
(***************************************************************************)
EXTENDS Integers, Sequences, FiniteSets, TLC

\* ------------------------------------------------------------------------
\* Program constants
\* ------------------------------------------------------------------------

\* const int MAX_CONNECTION_ATTEMPTS = 20;
MAX_CONNECTION_ATTEMPTS ==
  20

\* while (WiFi.status() != WL_CONNECTED && attempts < 10) in loop()
MaxReconnectAttempts ==
  10

\* delay(500) in both probe loops
ProbeDelayMs ==
  500

\* const size_t bufSize = 4096;
bufSize ==
  4096

\* frame2jpg(fb, 80, ...)
EncoderQuality ==
  80

\* FRAMESIZE_QVGA (320x240) at two bytes per pixel (RGB565 / YUV422)
RawFrameLen ==
  153600

\* ------------------------------------------------------------------------
\* Bounds of the model
\* ------------------------------------------------------------------------

\* JPEG payloads have up to MaxFullChunks full chunks, plus a short tail
MaxFullChunks ==
  3

\* Consecutive capture failures are counted up to this number
MaxCaptureFailures ==
  2

\* millis() readings range over 0..MaxMillis
MaxMillis ==
  1

\* Lengths of the JPEG payloads the camera or the encoder may produce:
\* multiples of the chunk size, one byte more, and 57 bytes more
\* (3 * 4096 + 57 = 12345).
JpegLens ==
  { k * bufSize + r : k \in 0..MaxFullChunks, r \in {0, 1, 57} }

WL_CONNECTED ==
  "WL_CONNECTED"

\* any status other than WL_CONNECTED
WL_DISCONNECTED ==
  "WL_DISCONNECTED"

PIXFORMAT_JPEG ==
  "PIXFORMAT_JPEG"

\* pixel formats setupCamera() tries, in order
PixelFormats ==
  {"PIXFORMAT_RGB565", "PIXFORMAT_YUV422", PIXFORMAT_JPEG}

\* routes registered whatever the camera does
BaseRoutes ==
  {"/", "/auto", "/sensor-data", "/update-sensor", "/test", "/network-status"}

VARIABLES
  pc,               \* position of the single execution context
  wlStatus,         \* what WiFi.status() returns now (driver state)
  wifiMode,         \* last WiFi.mode() argument
  softAPStarted,    \* WiFi.softAP() has been called
  connectedToWiFi,  \* the global flag
  attempts,         \* connectToWiFi()'s local counter
  loopAttempts,     \* loop()'s local counter `attempts`
  elapsedMs,        \* ms spent in delay() since the last WiFi.begin()/reconnect()
  sawConnected,     \* history: a status read of the current/last probe
                    \* sequence returned WL_CONNECTED
  cameraInitialized,
  pixel_format,     \* format the camera was initialised with
  routes,           \* paths registered with server.on()
  served,           \* last request dispatched by handleClient(): path and status
  clientConnected,  \* what client.connected() returns now (socket state)
  frame,            \* the frame the camera delivered last: format and len
  fb,               \* handleStream's fb pointer: "NULL" or "FB"
  jpg_buf,          \* "NULL", "FB_BUF" (= fb->buf) or "HEAP" (encoder's malloc)
  jpg_size,
  i,                \* offset of the chunk loop
  fbBorrowed,       \* frames FrameSource has lent and not got back
  heapLive,         \* encoder buffers allocated and not freed
  chan,             \* what the current loop iteration wrote to the channel
  iter,             \* calls made in the current loop iteration:
                    \* fb_get successes, fb_return calls, free calls,
                    \* encoder calls (their quality), encoder allocations
  captureFailures,  \* history: consecutive failed captures of the session,
                    \* counted up to MaxCaptureFailures
  sensorData,       \* the global struct; floats are held in tenths
  lastDataReceived  \* millis() of the last accepted update

connVars ==
  <<wlStatus, wifiMode, softAPStarted, connectedToWiFi, attempts,
    loopAttempts, elapsedMs, sawConnected>>

setupVars ==
  <<cameraInitialized, pixel_format, routes>>

streamVars ==
  <<clientConnected, frame, fb, jpg_buf, jpg_size, i, fbBorrowed, heapLive,
    chan, iter>>

sensorVars ==
  <<sensorData, lastDataReceived>>

vars ==
  <<pc, connVars, setupVars, served, streamVars, captureFailures, sensorVars>>

NoFrame ==
  [format |-> "NONE", len |-> 0]

NoCalls ==
  [gets |-> 0, returns |-> 0, frees |-> 0, encoder |-> <<>>, allocs |-> 0]

\* What handleUpdateSensor did in a request; none for any other request.
NoUpdate ==
  [body |-> "absent", hasBody |-> FALSE, fields |-> {}, now |-> 0,
   reply |-> "none", timestamp |-> 0]

NoRequest ==
  [path |-> "none", status |-> 0, wifiConnected |-> FALSE, update |-> NoUpdate]

\* State after power-on, before setup() runs.
Init ==
  /\ pc = "boot"
  /\ wlStatus = WL_DISCONNECTED
  /\ wifiMode = "WIFI_OFF"
  /\ softAPStarted = FALSE
  /\ connectedToWiFi = FALSE
  /\ attempts = 0
  /\ loopAttempts = 0
  /\ elapsedMs = 0
  /\ sawConnected = FALSE
  /\ cameraInitialized = FALSE
  /\ pixel_format = "NONE"
  /\ routes = {}
  /\ served = NoRequest
  /\ clientConnected = FALSE
  /\ frame = NoFrame
  /\ fb = "NULL"
  /\ jpg_buf = "NULL"
  /\ jpg_size = 0
  /\ i = 0
  /\ fbBorrowed = 0
  /\ heapLive = 0
  /\ chan = <<>>
  /\ iter = NoCalls
  /\ captureFailures = 0
  /\ sensorData = [temperature |-> 0, humidity |-> 0, waterSensor |-> 0]
  /\ lastDataReceived = 0

\* ------------------------------------------------------------------------
\* Views of the state
\* ------------------------------------------------------------------------

\* The station interface exists in STA and AP+STA modes.
StaEnabled ==
  wifiMode \in {"WIFI_STA", "WIFI_AP_STA"}

\* The self-hosted access point is up: softAP() was called and the mode
\* still includes the AP interface.
APActive ==
  softAPStarted /\ wifiMode \in {"WIFI_AP", "WIFI_AP_STA"}

JoinPcs ==
  {"join_loop", "join_result"}

ReconnectPcs ==
  {"reconnect_loop", "reconnect_result"}

\* The ConnectionState of the design, read off the sketch's position and flag.
ConnectionState ==
  IF pc = "boot" THEN "Idle"
  ELSE IF pc \in JoinPcs THEN "JoiningClientNetwork"
  ELSE IF pc \in ReconnectPcs THEN "Reconnecting"
  ELSE IF connectedToWiFi THEN "ClientJoinedAndHostActive"
  ELSE "HostOnlyFallback"

\* ------------------------------------------------------------------------
\* Environment: the WiFi driver changes the link status asynchronously
\* ------------------------------------------------------------------------

LinkUp ==
  /\ pc # "boot"
  /\ StaEnabled
  /\ wlStatus = WL_DISCONNECTED
  /\ wlStatus' = WL_CONNECTED
  /\ UNCHANGED <<pc, wifiMode, softAPStarted, connectedToWiFi, attempts,
                 loopAttempts, elapsedMs, sawConnected, setupVars, served,
                 streamVars, captureFailures, sensorVars>>

LinkDown ==
  /\ wlStatus = WL_CONNECTED
  /\ wlStatus' = WL_DISCONNECTED
  /\ UNCHANGED <<pc, wifiMode, softAPStarted, connectedToWiFi, attempts,
                 loopAttempts, elapsedMs, sawConnected, setupVars, served,
                 streamVars, captureFailures, sensorVars>>

\* ------------------------------------------------------------------------
\* setup(): initial join (connectToWiFi) and access point
\* ------------------------------------------------------------------------

\* WiFi.mode(WIFI_STA); WiFi.begin(ssid, password); int attempts = 0;
SetupBeginJoin ==
  /\ pc = "boot"
  /\ wifiMode' = "WIFI_STA"
  /\ attempts' = 0
  /\ elapsedMs' = 0
  /\ sawConnected' = FALSE
  /\ pc' = "join_loop"
  /\ UNCHANGED <<wlStatus, softAPStarted, connectedToWiFi, loopAttempts,
                 setupVars, served, streamVars, captureFailures, sensorVars>>

JoinLoopCond_OffByOne(status, n) ==
  status # WL_CONNECTED /\ n <= MAX_CONNECTION_ATTEMPTS

\* while (WiFi.status() != WL_CONNECTED && attempts < MAX_CONNECTION_ATTEMPTS)
JoinLoopCond(status, n) ==
  status # WL_CONNECTED /\ n < MAX_CONNECTION_ATTEMPTS

\* One probe of the initial join: the loop condition holds, delay(500),
\* attempts++.
JoinProbe ==
  /\ pc = "join_loop"
  /\ JoinLoopCond(wlStatus, attempts)
  /\ elapsedMs' = elapsedMs + ProbeDelayMs
  /\ attempts' = attempts + 1
  /\ UNCHANGED <<pc, wlStatus, wifiMode, softAPStarted, connectedToWiFi,
                 loopAttempts, sawConnected, setupVars, served, streamVars,
                 captureFailures, sensorVars>>

\* The loop condition fails: connected, or the budget is used up.
JoinLoopExit ==
  /\ pc = "join_loop"
  /\ ~JoinLoopCond(wlStatus, attempts)
  /\ sawConnected' = (sawConnected \/ wlStatus = WL_CONNECTED)
  /\ pc' = "join_result"
  /\ UNCHANGED <<wlStatus, wifiMode, softAPStarted, connectedToWiFi,
                 attempts, loopAttempts, elapsedMs, setupVars, served,
                 streamVars, captureFailures, sensorVars>>

ModeAfterJoin_KeepSta(joined) ==
  IF joined THEN "WIFI_AP_STA" ELSE "WIFI_STA"

\* if (connectedToWiFi) WiFi.mode(WIFI_AP_STA) else WiFi.mode(WIFI_AP)
ModeAfterJoin(joined) ==
  IF joined THEN "WIFI_AP_STA" ELSE "WIFI_AP"

\* connectToWiFi() returns what a second status read says (its local
\* `attempts` ends with it); setup() stores the result, selects the mode and
\* starts the access point.
JoinResult ==
  /\ pc = "join_result"
  /\ LET joined == (wlStatus = WL_CONNECTED) IN
       /\ connectedToWiFi' = joined
       /\ wifiMode' = ModeAfterJoin(joined)
       /\ sawConnected' = (sawConnected \/ joined)
  /\ softAPStarted' = TRUE
  /\ attempts' = 0
  /\ elapsedMs' = 0
  /\ pc' = "setup_camera"
  /\ UNCHANGED <<wlStatus, loopAttempts, setupVars, served, streamVars,
                 captureFailures, sensorVars>>

RoutesFor_StreamAlways(camera) ==
  BaseRoutes \cup {"/stream"}

\* The six server.on() calls, and
\* if (cameraInitialized) server.on("/stream", HTTP_GET, handleStream);
RoutesFor(camera) ==
  BaseRoutes \cup (IF camera THEN {"/stream"} ELSE {})

\* setupCamera() tries RGB565, YUV422 and JPEG in turn; then the routes are
\* registered, the server is started and the sensor defaults (25.0, 50.0, 0)
\* are stored.
SetupCamera ==
  /\ pc = "setup_camera"
  /\ \E fmt \in PixelFormats \cup {"NONE"} :
       /\ pixel_format' = fmt
       /\ cameraInitialized' = (fmt # "NONE")
       /\ routes' = RoutesFor(fmt # "NONE")
  /\ sensorData' = [temperature |-> 250, humidity |-> 500, waterSensor |-> 0]
  /\ pc' = "loop_handle"
  /\ UNCHANGED <<connVars, served, streamVars, captureFailures,
                 lastDataReceived>>

\* ------------------------------------------------------------------------
\* loop(): server.handleClient(), then the link monitor
\* ------------------------------------------------------------------------

\* server.handleClient() with no pending request.
HandleNoClient ==
  /\ pc = "loop_handle"
  /\ served' = NoRequest
  /\ pc' = "loop_check"
  /\ UNCHANGED <<connVars, setupVars, streamVars, captureFailures,
                 sensorVars>>

HandlePage_BetweenProbes ==
  /\ pc \in {"loop_handle", "reconnect_loop"}
  /\ \E path \in BaseRoutes \ {"/update-sensor"} :
       /\ path \in routes
       /\ served' = [path |-> path, status |-> 200,
                     wifiConnected |-> connectedToWiFi,
                     update |-> NoUpdate]
  /\ pc' = IF pc = "loop_handle" THEN "loop_check" ELSE pc
  /\ UNCHANGED <<connVars, setupVars, streamVars, captureFailures,
                 sensorVars>>

\* A request for one of the page / status routes: the handler reads the
\* flag and answers 200.
HandlePage ==
  /\ pc = "loop_handle"
  /\ \E path \in BaseRoutes \ {"/update-sensor"} :
       /\ path \in routes
       /\ served' = [path |-> path, status |-> 200,
                     wifiConnected |-> connectedToWiFi,
                update |-> NoUpdate]
  /\ pc' = "loop_check"
  /\ UNCHANGED <<connVars, setupVars, streamVars, captureFailures,
                 sensorVars>>

\* A request for /stream when the route was not registered.
HandleStreamNotFound ==
  /\ pc = "loop_handle"
  /\ "/stream" \notin routes
  /\ served' = [path |-> "/stream", status |-> 404,
                wifiConnected |-> connectedToWiFi,
                update |-> NoUpdate]
  /\ pc' = "loop_check"
  /\ UNCHANGED <<connVars, setupVars, streamVars, captureFailures,
                 sensorVars>>

NeedsReconnect_IgnoreFlag(flag, status) ==
  status # WL_CONNECTED

\* if (connectedToWiFi && WiFi.status() != WL_CONNECTED)
NeedsReconnect(flag, status) ==
  flag /\ status # WL_CONNECTED

ModeAfterReconnect_StaOnly(mode) ==
  "WIFI_STA"

\* WiFi.reconnect() leaves the mode as it is.
ModeAfterReconnect(mode) ==
  mode

\* The link monitor finds the link lost: WiFi.reconnect(); int attempts = 0;
LoopDetectLoss ==
  /\ pc = "loop_check"
  /\ NeedsReconnect(connectedToWiFi, wlStatus)
  /\ wifiMode' = ModeAfterReconnect(wifiMode)
  /\ loopAttempts' = 0
  /\ elapsedMs' = 0
  /\ sawConnected' = FALSE
  /\ pc' = "reconnect_loop"
  /\ UNCHANGED <<wlStatus, softAPStarted, connectedToWiFi, attempts,
                 setupVars, served, streamVars, captureFailures, sensorVars>>

\* Nothing to do for the link monitor: delay(1) and the next loop() call.
LoopIdle ==
  /\ pc = "loop_check"
  /\ ~NeedsReconnect(connectedToWiFi, wlStatus)
  /\ pc' = "loop_handle"
  /\ UNCHANGED <<connVars, setupVars, served, streamVars, captureFailures,
                 sensorVars>>

ReconnectLoopCond_OffByOne(status, n) ==
  status # WL_CONNECTED /\ n <= MaxReconnectAttempts

\* while (WiFi.status() != WL_CONNECTED && attempts < 10)
ReconnectLoopCond(status, n) ==
  status # WL_CONNECTED /\ n < MaxReconnectAttempts

\* One probe of a reconnection: delay(500), attempts++.
ReconnectProbe ==
  /\ pc = "reconnect_loop"
  /\ ReconnectLoopCond(wlStatus, loopAttempts)
  /\ elapsedMs' = elapsedMs + ProbeDelayMs
  /\ loopAttempts' = loopAttempts + 1
  /\ UNCHANGED <<pc, wlStatus, wifiMode, softAPStarted, connectedToWiFi,
                 attempts, sawConnected, setupVars, served, streamVars,
                 captureFailures, sensorVars>>

ReconnectLoopExit ==
  /\ pc = "reconnect_loop"
  /\ ~ReconnectLoopCond(wlStatus, loopAttempts)
  /\ sawConnected' = (sawConnected \/ wlStatus = WL_CONNECTED)
  /\ pc' = "reconnect_result"
  /\ UNCHANGED <<wlStatus, wifiMode, softAPStarted, connectedToWiFi,
                 attempts, loopAttempts, elapsedMs, setupVars, served,
                 streamVars, captureFailures, sensorVars>>

FlagAfterReconnect_Keep(flag, status) ==
  flag

\* if (WiFi.status() == WL_CONNECTED) { ... } else { connectedToWiFi = false; }
FlagAfterReconnect(flag, status) ==
  IF status = WL_CONNECTED THEN flag ELSE FALSE

ReconnectResult_FromLoopRead ==
  /\ pc = "reconnect_result"
  /\ connectedToWiFi' = sawConnected
  /\ loopAttempts' = 0
  /\ elapsedMs' = 0
  /\ pc' = "loop_handle"
  /\ UNCHANGED <<wlStatus, wifiMode, softAPStarted, attempts, sawConnected,
                 setupVars, served, streamVars, captureFailures, sensorVars>>

\* The second status read after the loop decides; the block's local
\* `attempts` ends here; then delay(1).
ReconnectResult ==
  /\ pc = "reconnect_result"
  /\ connectedToWiFi' = FlagAfterReconnect(connectedToWiFi, wlStatus)
  /\ sawConnected' = (sawConnected \/ wlStatus = WL_CONNECTED)
  /\ loopAttempts' = 0
  /\ elapsedMs' = 0
  /\ pc' = "loop_handle"
  /\ UNCHANGED <<wlStatus, wifiMode, softAPStarted, attempts, setupVars,
                 served, streamVars, captureFailures, sensorVars>>

\* ------------------------------------------------------------------------
\* handleUpdateSensor(): POST /update-sensor
\* ------------------------------------------------------------------------
\* A String is a sequence of one-character strings; positions are counted
\* from 0 as in the sketch.

\* "\"temperature\":"
TemperatureKey ==
  <<"\"", "t", "e", "m", "p", "e", "r", "a", "t", "u", "r", "e", "\"",
    ":">>

\* "\"humidity\":"
HumidityKey ==
  <<"\"", "h", "u", "m", "i", "d", "i", "t", "y", "\"", ":">>

\* "\"waterSensor\":"
WaterSensorKey ==
  <<"\"", "w", "a", "t", "e", "r", "S", "e", "n", "s", "o", "r", "\"",
    ":">>

\* {"temperature":23.5,"humidity":44,"waterSensor":1}
BodyFull ==
  <<"{", "\"", "t", "e", "m", "p", "e", "r", "a", "t", "u", "r", "e", "\"",
    ":", "2", "3", ".", "5", ",", "\"", "h", "u", "m", "i", "d", "i", "t",
    "y", "\"", ":", "4", "4", ",", "\"", "w", "a", "t", "e", "r", "S", "e",
    "n", "s", "o", "r", "\"", ":", "1", "}">>

\* {}
BodyEmptyObject ==
  <<"{", "}">>

\* "humidity":60,
BodyHumidityOnly ==
  <<"\"", "h", "u", "m", "i", "d", "i", "t", "y", "\"", ":", "6", "0",
    ",">>

\* {"humidity":60,}
BodyHumidityInBraces ==
  <<"{", "\"", "h", "u", "m", "i", "d", "i", "t", "y", "\"", ":", "6", "0",
    ",", "}">>

\* {"waterSensor":1}
BodyWaterOnly ==
  <<"{", "\"", "w", "a", "t", "e", "r", "S", "e", "n", "s", "o", "r", "\"",
    ":", "1", "}">>

\* {"temperature":,}
BodyTemperatureNoValue ==
  <<"{", "\"", "t", "e", "m", "p", "e", "r", "a", "t", "u", "r", "e", "\"",
    ":", ",", "}">>

\* {"temperature":hot,}
BodyTemperatureText ==
  <<"{", "\"", "t", "e", "m", "p", "e", "r", "a", "t", "u", "r", "e", "\"",
    ":", "h", "o", "t", ",", "}">>

\* The request bodies considered, by name.
BodyText ==
  [full |-> BodyFull,
   emptyObject |-> BodyEmptyObject,
   humidityOnly |-> BodyHumidityOnly,
   humidityInBraces |-> BodyHumidityInBraces,
   waterOnly |-> BodyWaterOnly,
   temperatureNoValue |-> BodyTemperatureNoValue,
   temperatureText |-> BodyTemperatureText]

\* Requests name their body; "absent" is a request with no body at all
\* (server.hasArg("plain") is false).
RequestsWith(names) ==
  [hasBody : {TRUE}, body : names] \cup {[hasBody |-> FALSE, body |-> "absent"]}

\* Every request considered.
UpdateRequests ==
  RequestsWith(DOMAIN BodyText)

\* The requests that arrive while the camera is also being streamed.
StreamTimeRequests ==
  RequestsWith({"full", "emptyObject"})

RECURSIVE FirstMatch(_, _, _)
\* First position >= p (from 0) at which pat occurs in str, -1 if none.
FirstMatch(str, pat, p) ==
  IF p + Len(pat) > Len(str) THEN -1
  ELSE IF \A k \in 1..Len(pat) : str[p + k] = pat[k] THEN p
  ELSE FirstMatch(str, pat, p + 1)

\* String::indexOf(pat, fromIndex): -1 when fromIndex is at or past the end.
IndexOf(str, pat, fromIndex) ==
  IF fromIndex >= Len(str) THEN -1 ELSE FirstMatch(str, pat, fromIndex)

\* String::substring(left, right): the characters at left .. right-1, with
\* the arguments swapped when left > right and right cut to the length.
Substring(str, left, right) ==
  LET lo == IF left > right THEN right ELSE left
      hi == IF left > right THEN left ELSE right
  IN IF lo >= Len(str) THEN <<>>
     ELSE SubSeq(str, lo + 1, IF hi > Len(str) THEN Len(str) ELSE hi)

DigitOf ==
  ("0" :> 0) @@ ("1" :> 1) @@ ("2" :> 2) @@ ("3" :> 3) @@ ("4" :> 4)
    @@ ("5" :> 5) @@ ("6" :> 6) @@ ("7" :> 7) @@ ("8" :> 8) @@ ("9" :> 9)

RECURSIVE DigitRun(_, _)
\* Number of consecutive digits of str from position k (from 1).
DigitRun(str, k) ==
  IF k > Len(str) \/ str[k] \notin DOMAIN DigitOf THEN 0
  ELSE 1 + DigitRun(str, k + 1)

RECURSIVE DigitsValue(_, _, _)
\* Value of the n digits of str that start at position k (from 1).
DigitsValue(str, k, n) ==
  IF n = 0 THEN 0
  ELSE 10 * DigitsValue(str, k, n - 1) + DigitOf[str[k + n - 1]]

\* String::toInt() (atol): optional minus sign, then the leading digits;
\* 0 when there are none.
ToInt(str) ==
  LET neg == Len(str) >= 1 /\ str[1] = "-"
      first == IF neg THEN 2 ELSE 1
      mag == DigitsValue(str, first, DigitRun(str, first))
  IN IF neg THEN 0 - mag ELSE mag

\* String::toFloat() (atof), in tenths: optional minus sign, leading digits,
\* and the first digit after a decimal point; 0 when there is no number.
ToFloat(str) ==
  LET neg == Len(str) >= 1 /\ str[1] = "-"
      first == IF neg THEN 2 ELSE 1
      n == DigitRun(str, first)
      dot == first + n
      tenth == IF dot < Len(str) /\ str[dot] = "."
                    /\ str[dot + 1] \in DOMAIN DigitOf
               THEN DigitOf[str[dot + 1]] ELSE 0
      mag == 10 * DigitsValue(str, first, n) + tenth
  IN IF neg THEN 0 - mag ELSE mag

\* Start of a field's value: indexOf(key) + the key's length.
ValueStart(body, key) ==
  IndexOf(body, key, 0) + Len(key)

\* End of a field's value: indexOf(delimiter, start).
ValueEnd(body, key, delimiter) ==
  IndexOf(body, <<delimiter>>, ValueStart(body, key))

\* if (tempStart > 14 && tempEnd > tempStart), and the same test with 11
\* for humidity and 14 for waterSensor.
FieldMatched(body, key, delimiter) ==
  /\ ValueStart(body, key) > Len(key)
  /\ ValueEnd(body, key, delimiter) > ValueStart(body, key)

\* body.substring(start, end) of a field.
FieldText(body, key, delimiter) ==
  Substring(body, ValueStart(body, key), ValueEnd(body, key, delimiter))

\* The fields the three if-statements assign for a body.
UpdatedFields(body) ==
  (IF FieldMatched(body, TemperatureKey, ",") THEN {"temperature"} ELSE {})
    \cup (IF FieldMatched(body, HumidityKey, ",") THEN {"humidity"} ELSE {})
    \cup (IF FieldMatched(body, WaterSensorKey, "}")
          THEN {"waterSensor"} ELSE {})

\* The values the three if-statements assign to the matched fields:
\* body.substring(start, end).toFloat() / .toInt() (0 stands for a field
\* that is not matched; it is never stored).
ParsedValues(body) ==
  [temperature |->
     IF FieldMatched(body, TemperatureKey, ",")
     THEN ToFloat(FieldText(body, TemperatureKey, ",")) ELSE 0,
   humidity |->
     IF FieldMatched(body, HumidityKey, ",")
     THEN ToFloat(FieldText(body, HumidityKey, ",")) ELSE 0,
   waterSensor |->
     IF FieldMatched(body, WaterSensorKey, "}")
     THEN ToInt(FieldText(body, WaterSensorKey, "}")) ELSE 0]

\* What the parsing code finds in each body considered (computed once).
Parse ==
  [name \in DOMAIN BodyText |->
     [fields |-> UpdatedFields(BodyText[name]),
      values |-> ParsedValues(BodyText[name])]]

ParsedData_Overwrite(parse, data) ==
  [f \in DOMAIN data |-> parse.values[f]]

\* sensorData after the three if-statements: the matched fields take the
\* parsed values, the others are not assigned.
ParsedData(parse, data) ==
  [f \in DOMAIN data |->
     IF f \in parse.fields THEN parse.values[f] ELSE data[f]]

UpdateStatus_OkWithBody(hasBody, dataUpdated) ==
  IF hasBody THEN 200 ELSE 400

\* server.send(200, ...) if (dataUpdated), else server.send(400, ...); 400
\* too when there is no body.
UpdateStatus(hasBody, dataUpdated) ==
  IF hasBody /\ dataUpdated THEN 200 ELSE 400

StampAfterUpdate_Always(dataUpdated, old, now) ==
  now

\* if (dataUpdated) lastDataReceived = millis();
StampAfterUpdate(dataUpdated, old, now) ==
  IF dataUpdated THEN now ELSE old

\* The whole handler for one of the given requests; `now` is what millis()
\* returns.
UpdateSensor(requests) ==
  /\ pc = "loop_handle"
  /\ "/update-sensor" \in routes
  /\ \E req \in requests, now \in lastDataReceived..MaxMillis :
       LET fields == IF req.hasBody THEN Parse[req.body].fields ELSE {}
           dataUpdated == fields # {}
           status == UpdateStatus(req.hasBody, dataUpdated)
           stamp == IF req.hasBody
                    THEN StampAfterUpdate(dataUpdated, lastDataReceived, now)
                    ELSE lastDataReceived
       IN /\ sensorData' = IF req.hasBody
                           THEN ParsedData(Parse[req.body], sensorData)
                           ELSE sensorData
          /\ lastDataReceived' = stamp
          /\ served' =
               [path |-> "/update-sensor", status |-> status,
                wifiConnected |-> connectedToWiFi,
                update |->
                  [body |-> req.body, hasBody |-> req.hasBody,
                   fields |-> fields, now |-> now,
                   reply |-> IF ~req.hasBody THEN "No data received"
                             ELSE IF status = 200 THEN "ok"
                             ELSE "Invalid data format",
                   timestamp |-> IF status = 200 THEN stamp ELSE 0]]
  /\ pc' = "loop_check"
  /\ UNCHANGED <<connVars, setupVars, streamVars, captureFailures>>

\* POST /update-sensor in the full firmware.
HandleUpdateSensor ==
  UpdateSensor(StreamTimeRequests)

\* POST /update-sensor with any of the request bodies.
HandleUpdateSensorAny ==
  UpdateSensor(UpdateRequests)

\* ------------------------------------------------------------------------
\* handleStream(): one stream session, run inside server.handleClient()
\* ------------------------------------------------------------------------

StreamPcs ==
  {"s_while", "s_get", "s_convert", "s_header", "s_chunk", "s_cleanup",
   "s_delay"}

\* Environment: the peer closes the socket at any point of the session.
ClientDisconnect ==
  /\ pc \in StreamPcs
  /\ clientConnected
  /\ clientConnected' = FALSE
  /\ UNCHANGED <<pc, connVars, setupVars, served, frame, fb, jpg_buf,
                 jpg_size, i, fbBorrowed, heapLive, chan, iter,
                 captureFailures, sensorVars>>

Write(kind, off, len) ==
  [kind |-> kind, off |-> off, len |-> len]

\* A request for /stream is dispatched: the preamble is written.
StreamBegin ==
  /\ pc = "loop_handle"
  /\ "/stream" \in routes
  /\ served' = [path |-> "/stream", status |-> 200,
                wifiConnected |-> connectedToWiFi,
                update |-> NoUpdate]
  /\ clientConnected' = TRUE
  /\ chan' = <<Write("preamble", 0, 0)>>
  /\ captureFailures' = 0
  /\ pc' = "s_while"
  /\ UNCHANGED <<connVars, setupVars, frame, fb, jpg_buf, jpg_size, i,
                 fbBorrowed, heapLive, iter, sensorVars>>

StreamLoopCond_Always(connected) ==
  TRUE

\* while (client.connected())
StreamLoopCond(connected) ==
  connected

\* while (client.connected()) holds: the body starts.
StreamContinue ==
  /\ pc = "s_while"
  /\ StreamLoopCond(clientConnected)
  /\ pc' = "s_get"
  /\ UNCHANGED <<connVars, setupVars, served, streamVars, captureFailures,
                 sensorVars>>

\* while (client.connected()) fails: handleStream returns and its locals
\* end; loop() goes on after server.handleClient().
StreamReturn ==
  /\ pc = "s_while"
  /\ ~StreamLoopCond(clientConnected)
  /\ frame' = NoFrame
  /\ fb' = "NULL"
  /\ jpg_buf' = "NULL"
  /\ jpg_size' = 0
  /\ i' = 0
  /\ chan' = <<>>
  /\ iter' = NoCalls
  /\ captureFailures' = 0
  /\ pc' = "loop_check"
  /\ UNCHANGED <<connVars, setupVars, served, clientConnected, fbBorrowed,
                 heapLive, sensorVars>>

CaptureFailNext_Return ==
  "loop_check"

CaptureFailNext_RetryInPlace ==
  "s_get"

\* Where `continue` takes the loop after a failed capture: to the
\* while (client.connected()) test.
CaptureFailNext ==
  "s_while"

\* esp_camera_fb_get() returns NULL: delay(100); continue;
StreamCaptureFail ==
  /\ pc = "s_get"
  /\ frame' = NoFrame
  /\ fb' = "NULL"
  /\ jpg_buf' = "NULL"
  /\ jpg_size' = 0
  /\ i' = 0
  /\ chan' = <<>>
  /\ iter' = NoCalls
  /\ captureFailures' = IF captureFailures < MaxCaptureFailures
                        THEN captureFailures + 1 ELSE captureFailures
  /\ pc' = CaptureFailNext
  /\ UNCHANGED <<connVars, setupVars, served, clientConnected, fbBorrowed,
                 heapLive, sensorVars>>

\* Lengths a frame of the given format can have.
FrameLens(format) ==
  IF format = PIXFORMAT_JPEG THEN JpegLens ELSE {RawFrameLen}

\* esp_camera_fb_get() lends a frame in the configured format;
\* jpg_buf = NULL; jpg_size = 0;
StreamCapture ==
  /\ pc = "s_get"
  /\ \E len \in FrameLens(pixel_format) :
       frame' = [format |-> pixel_format, len |-> len]
  /\ fb' = "FB"
  /\ fbBorrowed' = fbBorrowed + 1
  /\ jpg_buf' = "NULL"
  /\ jpg_size' = 0
  /\ i' = 0
  /\ chan' = <<>>
  /\ iter' = [NoCalls EXCEPT !.gets = 1]
  /\ captureFailures' = 0
  /\ pc' = "s_convert"
  /\ UNCHANGED <<connVars, setupVars, served, clientConnected, heapLive,
                 sensorVars>>

NeedsConversion_Always(format) ==
  TRUE

\* if (fb->format != PIXFORMAT_JPEG)
NeedsConversion(format) ==
  format # PIXFORMAT_JPEG

ReturnFrameAfterEncode_OnlyOnSuccess(converted) ==
  converted

ReturnFrameAfterEncode_OnlyOnFailure(converted) ==
  ~converted

\* esp_camera_fb_return(fb); fb = NULL; follows frame2jpg() whatever it
\* returned.
ReturnFrameAfterEncode(converted) ==
  TRUE

\* The effect of lines 305-307 on fb and on FrameSource.
EncodeAndReturn(converted) ==
  IF ReturnFrameAfterEncode(converted)
  THEN /\ fb' = "NULL"
       /\ fbBorrowed' = fbBorrowed - 1
       /\ iter' = [iter EXCEPT !.returns = @ + 1,
                               !.encoder = Append(@, EncoderQuality),
                               !.allocs = @ + (IF converted THEN 1 ELSE 0)]
  ELSE /\ UNCHANGED <<fb, fbBorrowed>>
       /\ iter' = [iter EXCEPT !.encoder = Append(@, EncoderQuality),
                               !.allocs = @ + (IF converted THEN 1 ELSE 0)]

\* frame2jpg() succeeds: it allocates jpg_buf of jpg_size bytes; the
\* hardware frame goes back.
StreamConvert ==
  /\ pc = "s_convert"
  /\ NeedsConversion(frame.format)
  /\ \E n \in JpegLens : jpg_size' = n
  /\ jpg_buf' = "HEAP"
  /\ heapLive' = heapLive + 1
  /\ EncodeAndReturn(TRUE)
  /\ pc' = "s_header"
  /\ UNCHANGED <<connVars, setupVars, served, clientConnected, frame, i,
                 chan, captureFailures, sensorVars>>

ConvertFailNext_FallThrough ==
  "s_header"

\* Where `continue` takes the loop after a failed conversion.
ConvertFailNext ==
  "s_while"

\* frame2jpg() fails (nothing is allocated): the hardware frame goes back;
\* delay(100); continue;
StreamConvertFail ==
  /\ pc = "s_convert"
  /\ NeedsConversion(frame.format)
  /\ EncodeAndReturn(FALSE)
  /\ pc' = ConvertFailNext
  /\ UNCHANGED <<connVars, setupVars, served, clientConnected, frame,
                 jpg_buf, jpg_size, i, heapLive, chan, captureFailures,
                 sensorVars>>

\* The frame is JPEG already: jpg_buf = fb->buf; jpg_size = fb->len;
StreamUseFrame ==
  /\ pc = "s_convert"
  /\ ~NeedsConversion(frame.format)
  /\ jpg_buf' = "FB_BUF"
  /\ jpg_size' = frame.len
  /\ pc' = "s_header"
  /\ UNCHANGED <<connVars, setupVars, served, clientConnected, frame, fb, i,
                 fbBorrowed, heapLive, chan, iter, captureFailures,
                 sensorVars>>

\* "--frame", Content-Type and Content-Length: jpg_size; i = 0.
StreamHeader ==
  /\ pc = "s_header"
  /\ chan' = Append(chan, Write("header", 0, jpg_size))
  /\ i' = 0
  /\ pc' = "s_chunk"
  /\ UNCHANGED <<connVars, setupVars, served, clientConnected, frame, fb,
                 jpg_buf, jpg_size, fbBorrowed, heapLive, iter,
                 captureFailures, sensorVars>>

toWrite_FullChunk(size, off) ==
  bufSize

\* size_t remainder = jpg_size - i;
\* size_t toWrite = (remainder > bufSize) ? bufSize : remainder;
toWrite(size, off) ==
  IF size - off > bufSize THEN bufSize ELSE size - off

\* One turn of the chunk loop: client.write(jpg_buf + i, toWrite); i += bufSize.
StreamWriteChunk ==
  /\ pc = "s_chunk"
  /\ i < jpg_size
  /\ chan' = Append(chan, Write("data", i, toWrite(jpg_size, i)))
  /\ i' = i + bufSize
  /\ UNCHANGED <<pc, connVars, setupVars, served, clientConnected, frame, fb,
                 jpg_buf, jpg_size, fbBorrowed, heapLive, iter,
                 captureFailures, sensorVars>>

\* The chunk loop is over: client.print("\r\n").
StreamEndPart ==
  /\ pc = "s_chunk"
  /\ ~(i < jpg_size)
  /\ chan' = Append(chan, Write("crlf", 0, 0))
  /\ pc' = "s_cleanup"
  /\ UNCHANGED <<connVars, setupVars, served, clientConnected, frame, fb,
                 jpg_buf, jpg_size, i, fbBorrowed, heapLive, iter,
                 captureFailures, sensorVars>>

CleanupPaths_NoElse(f, buf) ==
  (IF f # "NULL" THEN {"return"} ELSE {})
    \cup (IF buf # "NULL" THEN {"free"} ELSE {})

\* if (fb) { esp_camera_fb_return(fb); } else if (jpg_buf && fb == NULL)
\* { free(jpg_buf); } : the release calls the clean-up makes.
CleanupPaths(f, buf) ==
  IF f # "NULL" THEN {"return"}
  ELSE IF buf # "NULL" /\ f = "NULL" THEN {"free"}
  ELSE {}

\* The clean-up at the end of the body.
StreamCleanup ==
  /\ pc = "s_cleanup"
  /\ LET paths == CleanupPaths(fb, jpg_buf) IN
       /\ fb' = IF "return" \in paths THEN "NULL" ELSE fb
       /\ fbBorrowed' = IF "return" \in paths THEN fbBorrowed - 1
                        ELSE fbBorrowed
       /\ jpg_buf' = IF "free" \in paths THEN "NULL" ELSE jpg_buf
       /\ heapLive' = IF "free" \in paths /\ jpg_buf = "HEAP"
                      THEN heapLive - 1 ELSE heapLive
       /\ iter' = [iter EXCEPT
                     !.returns = @ + (IF "return" \in paths THEN 1 ELSE 0),
                     !.frees = @ + (IF "free" \in paths THEN 1 ELSE 0)]
  /\ pc' = "s_delay"
  /\ UNCHANGED <<connVars, setupVars, served, clientConnected, frame,
                 jpg_size, i, chan, captureFailures, sensorVars>>

StreamDelay_CheckFirst ==
  /\ pc = "s_delay"
  /\ pc' = IF clientConnected THEN "s_while" ELSE "loop_check"
  /\ UNCHANGED <<connVars, setupVars, served, streamVars, captureFailures,
                 sensorVars>>

StreamDelay_ChecksLink ==
  /\ pc = "s_delay"
  /\ connectedToWiFi' = (connectedToWiFi /\ wlStatus = WL_CONNECTED)
  /\ pc' = "s_while"
  /\ UNCHANGED <<wlStatus, wifiMode, softAPStarted, attempts, loopAttempts,
                 elapsedMs, sawConnected, setupVars, served, streamVars,
                 captureFailures, sensorVars>>

\* delay(100) at the end of the body.
StreamDelay ==
  /\ pc = "s_delay"
  /\ pc' = "s_while"
  /\ UNCHANGED <<connVars, setupVars, served, streamVars, captureFailures,
                 sensorVars>>


Next ==
  \/ LinkUp
  \/ LinkDown
  \/ SetupBeginJoin
  \/ JoinProbe
  \/ JoinLoopExit
  \/ JoinResult
  \/ SetupCamera
  \/ HandleNoClient
  \/ HandlePage
  \/ HandleStreamNotFound
  \/ HandleUpdateSensor
  \/ LoopDetectLoss
  \/ LoopIdle
  \/ ReconnectProbe
  \/ ReconnectLoopExit
  \/ ReconnectResult
  \/ ClientDisconnect
  \/ StreamBegin
  \/ StreamContinue
  \/ StreamReturn
  \/ StreamCaptureFail
  \/ StreamCapture
  \/ StreamConvert
  \/ StreamConvertFail
  \/ StreamUseFrame
  \/ StreamHeader
  \/ StreamWriteChunk
  \/ StreamEndPart
  \/ StreamCleanup
  \/ StreamDelay

Spec ==
  Init /\ [][Next]_vars

\* The steps of the running stream session (the cooperative context keeps
\* executing handleStream until it returns).
StreamStep ==
  \/ StreamContinue
  \/ StreamReturn
  \/ StreamCaptureFail
  \/ StreamCapture
  \/ StreamConvert
  \/ StreamConvertFail
  \/ StreamUseFrame
  \/ StreamHeader
  \/ StreamWriteChunk
  \/ StreamEndPart
  \/ StreamCleanup
  \/ StreamDelay

\* The firmware with a processor that keeps running the stream handler.
LiveSpec ==
  Init /\ [][Next]_vars /\ WF_vars(StreamStep)

\* The firmware where the client network is out of reach and nobody asks
\* for /stream, with every request body.
SensorNext ==
  \/ SetupBeginJoin
  \/ JoinProbe
  \/ JoinLoopExit
  \/ JoinResult
  \/ SetupCamera
  \/ HandleNoClient
  \/ HandlePage
  \/ HandleStreamNotFound
  \/ HandleUpdateSensorAny
  \/ LoopIdle

SensorSpec ==
  Init /\ [][SensorNext]_vars

\* ------------------------------------------------------------------------
\* What the current loop iteration has put on the channel
\* ------------------------------------------------------------------------

\* The part headers written in this iteration.
Headers ==
  SelectSeq(chan, LAMBDA w : w.kind = "header")

RECURSIVE PayloadBytes(_)
\* Total number of payload bytes in a sequence of writes.
PayloadBytes(ws) ==
  IF ws = <<>> THEN 0
  ELSE (IF Head(ws).kind = "data" THEN Head(ws).len ELSE 0)
         + PayloadBytes(Tail(ws))

\* The iteration has written one whole part of n payload bytes: header,
\* payload, line terminator.
PartComplete(n) ==
  /\ Len(chan) >= 2
  /\ chan[1] = Write("header", 0, n)
  /\ Len(Headers) = 1
  /\ chan[Len(chan)] = Write("crlf", 0, 0)
  /\ PayloadBytes(chan) = n

\* ------------------------------------------------------------------------
\* Claims
\* ------------------------------------------------------------------------

\* C1: once the self-hosted access point has been started it stays active:
\* no step (reconnect start, success, failure, fallback, or any other)
\* takes it down.
C1_AccessPointStaysUp ==
  [][APActive => APActive']_vars

\* C1 witness: host-only fallback reached through a failed reconnection
\* (the mode still includes the station), with the access point up.
C1_Witness ==
  /\ APActive
  /\ ConnectionState = "HostOnlyFallback"
  /\ wifiMode = "WIFI_AP_STA"
  /\ pc = "loop_handle"

\* C2 as stated: the access point is reachable at every step of the joining
\* phase and at every step after the fallback decision.
C2_Original ==
  ConnectionState \in {"JoiningClientNetwork", "HostOnlyFallback"} => APActive

\* C2 as amended: during the joining phase the access point is not started
\* yet; from the fallback decision on it is reachable at every step.
C2_AccessPointAfterFallback ==
  /\ ConnectionState = "JoiningClientNetwork" => ~APActive
  /\ ConnectionState = "HostOnlyFallback" => APActive

\* C2 witness: the boot's join has just failed with no status read ever
\* reporting a connection, and the access point is up.
C2_Witness ==
  /\ pc = "setup_camera"
  /\ ~sawConnected
  /\ ConnectionState = "HostOnlyFallback"
  /\ APActive

\* C3: when all status reads of the initial join fail, the probe loop ends
\* after exactly 20 probes and the state becomes HostOnlyFallback; the probe
\* counter stays within 0..20.
C3_FallbackAfterTwentyProbes ==
  /\ attempts \in 0..MAX_CONNECTION_ATTEMPTS
  /\ (pc = "join_loop" /\ attempts > 0) => ~sawConnected
  /\ (pc = "join_result" /\ ~sawConnected) =>
        /\ attempts = MAX_CONNECTION_ATTEMPTS
        /\ elapsedMs = MAX_CONNECTION_ATTEMPTS * ProbeDelayMs
  /\ (pc = "setup_camera" /\ ~sawConnected) =>
        ConnectionState = "HostOnlyFallback"

\* C3 witness: the probe loop has ended with 20 failed probes.
C3_Witness ==
  /\ pc = "join_result"
  /\ ~sawConnected
  /\ attempts = 20

\* C4: a link loss detected in ClientJoinedAndHostActive starts a probe
\* sequence with a fresh counter; at most 10 probes occur in it, each at
\* least 500 ms after the one before, and when no status read of the
\* sequence reports a connection the state becomes HostOnlyFallback.
C4_BoundedReconnection ==
  [][ /\ loopAttempts' \in 0..MaxReconnectAttempts
      /\ (pc = "loop_check" /\ pc' = "reconnect_loop") =>
            (ConnectionState = "ClientJoinedAndHostActive" /\ loopAttempts' = 0)
      /\ loopAttempts' = loopAttempts + 1 =>
            (pc = "reconnect_loop" /\ elapsedMs' - elapsedMs >= 500)
      /\ (pc = "reconnect_result" /\ pc' # pc /\ ~sawConnected') =>
            (loopAttempts = MaxReconnectAttempts
               /\ ConnectionState' = "HostOnlyFallback")
    ]_vars

\* C4 witness: a reconnection has used up its 10 probes without any status
\* read reporting a connection.
C4_Witness ==
  /\ pc = "reconnect_result"
  /\ loopAttempts = 10
  /\ elapsedMs = 5000
  /\ ~sawConnected
  /\ wlStatus = WL_DISCONNECTED

\* C5 as stated: when a probe of a reconnection succeeds (the loop's status
\* read reports a connection) the state returns to
\* ClientJoinedAndHostActive, and every link loss starts with a fresh budget.
C5_Original ==
  [][ /\ (pc = "reconnect_result" /\ pc' # pc /\ sawConnected) =>
            ConnectionState' = "ClientJoinedAndHostActive"
      /\ (pc = "loop_check" /\ pc' = "reconnect_loop") => loopAttempts' = 0
    ]_vars

\* C6: HostOnlyFallback is terminal: from it no step leaves it, performs a
\* probe or starts a rejoin, whatever the link does.
C6_FallbackIsTerminal ==
  [][ ConnectionState = "HostOnlyFallback" =>
        /\ ConnectionState' = "HostOnlyFallback"
        /\ ~connectedToWiFi'
        /\ UNCHANGED <<attempts, loopAttempts, elapsedMs, wifiMode>>
    ]_vars

\* C6 witness: the link monitor runs in HostOnlyFallback while the client
\* link is back up.
C6_Witness ==
  /\ ConnectionState = "HostOnlyFallback"
  /\ wlStatus = WL_CONNECTED
  /\ pc = "loop_check"

\* C7: every buffer is released exactly once and by its own path: a borrowed
\* frame is returned to FrameSource once, an encoder buffer is freed once,
\* nothing else is freed, and nothing is held when an iteration or the
\* session ends.
C7_OneReleasePath ==
  /\ iter.returns <= iter.gets
  /\ iter.frees <= iter.allocs
  /\ pc \in StreamPcs =>
        /\ fbBorrowed = iter.gets - iter.returns
        /\ heapLive = iter.allocs - iter.frees
  /\ pc \in {"s_while", "s_delay"} =>
        /\ iter.returns = iter.gets
        /\ iter.frees = iter.allocs
  /\ pc \notin StreamPcs => (fbBorrowed = 0 /\ heapLive = 0)

\* C7 witness: an iteration that encoded its frame has returned the frame
\* and freed the encoder's buffer.
C7_Witness ==
  /\ pc = "s_delay"
  /\ iter = [gets |-> 1, returns |-> 1, frees |-> 1,
             encoder |-> <<EncoderQuality>>, allocs |-> 1]
  /\ fbBorrowed = 0
  /\ heapLive = 0

\* C8: the pipeline holds at most one borrowed frame, and holds none when
\* it asks FrameSource for the next one.
C8_AtMostOneBorrowed ==
  /\ fbBorrowed \in 0..1
  /\ pc = "s_get" => fbBorrowed = 0

\* C8 witness: a frame was borrowed, its encoding failed, it was returned,
\* and the next frame is about to be requested.
C8_Witness ==
  /\ pc = "s_get"
  /\ iter.gets = 1
  /\ iter.returns = 1
  /\ iter.allocs = 0
  /\ iter.encoder # <<>>

\* C9: for a captured JPEG frame of length n the encoder is never called
\* and nothing is freed, every header written carries Content-Length n, the
\* frame is returned to FrameSource only once the whole part is written,
\* and at the end of the iteration exactly one part was written and the
\* frame is returned.
C9_JpegFramePassedThrough ==
  frame.format = PIXFORMAT_JPEG =>
    /\ iter.encoder = <<>>
    /\ iter.frees = 0
    /\ Len(Headers) <= 1
    /\ \A k \in 1..Len(Headers) : Headers[k].len = frame.len
    /\ iter.returns >= 1 => PartComplete(frame.len)
    /\ pc = "s_delay" => (iter.returns = 1 /\ PartComplete(frame.len))

\* C9 witness: a JPEG frame of 12345 bytes has been sent and returned.
C9_Witness ==
  /\ pc = "s_delay"
  /\ frame = [format |-> PIXFORMAT_JPEG, len |-> 12345]
  /\ iter.returns = 1
  /\ PartComplete(12345)

\* C10: for a captured frame in another format the encoder is called
\* exactly once, with quality 80; the hardware frame is back at FrameSource
\* before anything of the part is written; the encoder's buffer is freed
\* only after the whole part is written, and is freed by the end of the
\* iteration.
C10_EncodedFrameOrder ==
  (iter.gets = 1 /\ frame.format # PIXFORMAT_JPEG) =>
    /\ pc # "s_convert" => iter.encoder = <<80>>
    /\ chan # <<>> => (iter.returns = 1 /\ fb = "NULL")
    /\ iter.frees >= 1 => PartComplete(jpg_size)
    /\ (pc = "s_delay" /\ iter.allocs = 1) => (iter.frees = 1 /\ heapLive = 0)

\* C10 witness: an RGB565 frame was encoded to 12345 bytes, sent, and the
\* encoder's buffer freed.
C10_Witness ==
  /\ pc = "s_delay"
  /\ frame.format = "PIXFORMAT_RGB565"
  /\ jpg_size = 12345
  /\ iter.frees = 1
  /\ PartComplete(12345)

\* ------------------------------------------------------------------------
\* C11: however many captures fail in a row during a stream session, the
\* handler never closes the channel (the channel goes from connected to
\* disconnected only by the peer, with the handler standing still) and
\* never returns while the channel reports connected: the session leaves
\* handleStream only from the while test, with the channel disconnected,
\* and a failed capture keeps the session inside handleStream.
\* ------------------------------------------------------------------------
C11_CaptureFailuresKeepSession ==
  [][/\ (clientConnected /\ ~clientConnected') =>
          UNCHANGED <<pc, chan, iter, captureFailures, fb, jpg_buf>>
     /\ (pc \in StreamPcs /\ pc' \notin StreamPcs) =>
          (pc = "s_while" /\ ~clientConnected /\ pc' = "loop_check")
     /\ (pc = "s_get" /\ fb' = "NULL" /\ pc' # pc) =>
          (pc' \in StreamPcs /\ clientConnected' = clientConnected)]_vars

\* Captures have failed MaxCaptureFailures times in a row and the session
\* is still running on a connected channel.
C11_Witness ==
  /\ captureFailures = MaxCaptureFailures
  /\ captureFailures >= 2
  /\ pc \in StreamPcs
  /\ clientConnected

\* ------------------------------------------------------------------------
\* C12: a zero-length frame lent by esp_camera_fb_get() is treated as a
\* capture failure: the iteration that got it writes no part header (no
\* boundary, no Content-Length) and goes back to the while test through
\* the retry path, not through the part-writing steps.
\* handleStream tests only the pointer (if (!fb)), so this is violated: a
\* JPEG frame of length 0 gets the header "Content-Length: 0".
\* ------------------------------------------------------------------------
C12_Original ==
  (pc \in StreamPcs /\ iter.gets = 1 /\ fb # "NULL" /\ frame.len = 0) =>
    (Headers = <<>> /\ pc \notin {"s_chunk", "s_cleanup", "s_delay"})

\* The encoder was called in this iteration and produced nothing.
EncoderFailed ==
  /\ pc \in StreamPcs
  /\ iter.encoder # <<>>
  /\ iter.allocs = 0

\* ------------------------------------------------------------------------
\* C13: on every failure of frame2jpg() the hardware frame is given back to
\* the camera driver, nothing of a part (boundary, header, payload) is
\* written to the channel for that frame, and the loop goes back to its
\* head inside the same session: the next thing it does on a connected
\* channel is to acquire a frame.
\* ------------------------------------------------------------------------
C13_EncoderFailureDropsFrame ==
  /\ [](EncoderFailed =>
          /\ chan = <<>>
          /\ fb = "NULL" /\ fbBorrowed = 0 /\ heapLive = 0
          /\ iter.returns = 1
          /\ pc \in {"s_while", "s_get"})
  /\ [][(pc = "s_convert" /\ EncoderFailed') =>
          /\ fbBorrowed = 1 /\ fbBorrowed' = 0
          /\ chan' = <<>>
          /\ pc' = "s_while"
          /\ clientConnected' = clientConnected]_vars

\* The encoder has just failed on a raw frame and the session goes on with
\* the channel connected.
C13_Witness ==
  /\ EncoderFailed
  /\ frame.format # PIXFORMAT_JPEG
  /\ iter.encoder = <<EncoderQuality>>
  /\ pc = "s_get"
  /\ clientConnected

\* ------------------------------------------------------------------------
\* C14: while handleStream is running, loop() is not: no step taken during
\* a stream session serves another request, moves the link monitor or
\* touches the sensor snapshot. The connection state, the flag, the WiFi
\* mode, the reconnection counter, the record of the request being served
\* and the sensor data with its timestamp are the same after every step of
\* the session, the returning step included, whatever the link does.
\* ------------------------------------------------------------------------
C14_SessionHoldsTheContext ==
  [][(pc \in StreamPcs) =>
       (/\ served.path = "/stream"
        /\ ConnectionState' = ConnectionState
        /\ UNCHANGED <<connectedToWiFi, wifiMode, softAPStarted,
                       loopAttempts, served, sensorData,
                       lastDataReceived>>)]_vars

\* A session that has written a part is running after the link was lost:
\* the flag still says connected, and the sensor snapshot stored before the
\* session is in place.
C14_Witness ==
  /\ pc = "s_delay"
  /\ PartComplete(jpg_size)
  /\ wlStatus = WL_DISCONNECTED
  /\ connectedToWiFi
  /\ ConnectionState = "ClientJoinedAndHostActive"
  /\ sensorData.temperature = 235

\* ------------------------------------------------------------------------
\* C15: once the channel is disconnected during a stream session (it stays
\* so: only a new session connects it again), handleStream eventually
\* returns, whether the captures and conversions still under way succeed
\* or fail; and the step taken from the while test that sees the channel
\* disconnected is the return itself, with no frame acquired and nothing
\* written after it.
\* ------------------------------------------------------------------------
C15_SessionEndsAfterDisconnect ==
  /\ ((pc \in StreamPcs /\ ~clientConnected) ~> (pc \notin StreamPcs))
  /\ [][(pc = "s_while" /\ ~clientConnected /\ pc' # pc) =>
          (pc' = "loop_check" /\ iter'.gets = 0 /\ chan' = <<>>
             /\ fbBorrowed' = fbBorrowed)]_vars

\* The channel is disconnected, the conversion of the frame in hand has
\* failed, and the session stands at the while test that will see it.
C15_Witness ==
  /\ pc = "s_while"
  /\ ~clientConnected
  /\ EncoderFailed
  /\ served.path = "/stream"

\* The request served last was a POST /update-sensor.
UpdateServed ==
  served.path = "/update-sensor"

\* ------------------------------------------------------------------------
\* C16: POST /update-sensor is answered 200 with the ok body exactly when
\* the request updated at least one of the three fields, and 400 with an
\* error body otherwise, a request without a body included; the body
\* {"temperature":23.5,"humidity":44,"waterSensor":1} updates all three
\* fields (23.5, 44.0, 1) and sets the timestamp to the millis() reading,
\* which is the timestamp echoed in the response.
\* ------------------------------------------------------------------------
C16_OkIffFieldUpdated ==
  UpdateServed =>
    /\ served.status \in {200, 400}
    /\ served.status = 200 <=> served.update.fields # {}
    /\ served.status = 200 <=> served.update.reply = "ok"
    /\ served.status = 400 <=>
         served.update.reply \in {"Invalid data format", "No data received"}
    /\ ~served.update.hasBody => served.status = 400
    /\ (served.update.hasBody /\ served.update.body = "full") =>
         /\ served.status = 200
         /\ served.update.fields = {"temperature", "humidity", "waterSensor"}
         /\ sensorData =
              [temperature |-> 235, humidity |-> 440, waterSensor |-> 1]
         /\ lastDataReceived = served.update.now
         /\ served.update.timestamp = served.update.now

\* The full body has been served at a millis() reading other than the
\* initial timestamp.
C16_Witness ==
  /\ UpdateServed
  /\ served.update.body = "full"
  /\ served.status = 200
  /\ sensorData.humidity = 440
  /\ served.update.timestamp = MaxMillis
  /\ lastDataReceived = MaxMillis

\* ------------------------------------------------------------------------
\* C17: every POST /update-sensor that is answered 400 (no body, or a body
\* such as {} in which no key is recognised) leaves the stored temperature,
\* humidity, waterSensor and the last-update timestamp as they were.
\* ------------------------------------------------------------------------
C17_RejectedRequestChangesNothing ==
  [][(pc = "loop_handle" /\ UpdateServed' /\ served'.status = 400) =>
       UNCHANGED <<sensorData, lastDataReceived>>]_vars

\* After an accepted update at time 0, the body {} has been answered 400
\* at a later millis() reading and the stored values are those of the
\* accepted update.
C17_Witness ==
  /\ UpdateServed
  /\ served.update.body = "emptyObject"
  /\ served.status = 400
  /\ served.update.now = MaxMillis
  /\ lastDataReceived = 0
  /\ sensorData = [temperature |-> 235, humidity |-> 440, waterSensor |-> 1]

\* ------------------------------------------------------------------------
\* C18: for every request body, a field is updated whenever its key occurs
\* in the body, at any position, the very start included, with its
\* delimiter ("," for temperature and humidity, "}" for waterSensor)
\* somewhere after the key; the body "humidity":60, updates humidity (to
\* 60.0) and is answered 200.
\* The tests `start > 11` / `start > 14` reject a key at index 0, and
\* `end > start` rejects a delimiter that follows the key at once, so this
\* is violated.
\* ------------------------------------------------------------------------
C18_Original ==
  (UpdateServed /\ served.update.hasBody) =>
    LET body == BodyText[served.update.body]
        key == [temperature |-> TemperatureKey, humidity |-> HumidityKey,
                waterSensor |-> WaterSensorKey]
        delimiter == [temperature |-> ",", humidity |-> ",",
                      waterSensor |-> "}"]
        Present(f) ==
          \E p \in 0..(Len(body) - 1), q \in 1..Len(body) :
            /\ p + Len(key[f]) < q
            /\ SubSeq(body, p + 1, p + Len(key[f])) = key[f]
            /\ body[q] = delimiter[f]
    IN /\ \A f \in DOMAIN key : Present(f) => f \in served.update.fields
       /\ served.update.body = "humidityOnly" =>
            (served.status = 200 /\ sensorData.humidity = 600)

\* setup() has returned: the server has been started and loop() runs.
SetupDone ==
  pc \notin {"boot", "setup_camera"} \cup JoinPcs

\* ------------------------------------------------------------------------
\* C19: a stream session can start only if the camera was initialised in
\* setup(). From the end of setup() on, for the whole boot session, the
\* six other routes are registered whatever the camera and the join did,
\* /stream is registered exactly when the camera initialisation succeeded,
\* and the registrations never change; with a failed camera a request for
\* /stream is answered 404 and handleStream never runs.
\* ------------------------------------------------------------------------
C19_StreamRouteNeedsCamera ==
  /\ [](SetupDone =>
          /\ BaseRoutes \subseteq routes
          /\ "/stream" \in routes <=> cameraInitialized)
  /\ [](~SetupDone => "/stream" \notin routes)
  /\ []((pc \in StreamPcs \/ (served.path = "/stream" /\ served.status = 200))
          => cameraInitialized)
  /\ [][SetupDone => UNCHANGED <<routes, cameraInitialized>>]_vars

\* The camera failed to initialise and the join failed too: the six routes
\* are there and a request for /stream has been answered 404.
C19_Witness ==
  /\ SetupDone
  /\ ~cameraInitialized
  /\ ConnectionState = "HostOnlyFallback"
  /\ routes = BaseRoutes
  /\ served.path = "/stream"
  /\ served.status = 404

\* ------------------------------------------------------------------------
\* C20 as stated: connectedToWiFi is true only when the connection state is
\* ClientJoinedAndHostActive; it is false in Idle, JoiningClientNetwork,
\* Reconnecting and HostOnlyFallback.
\* loop() clears the flag only when a reconnection has failed (line 236),
\* so the flag is true all through Reconnecting.
\* ------------------------------------------------------------------------
C20_Original ==
  connectedToWiFi => ConnectionState = "ClientJoinedAndHostActive"

\* ------------------------------------------------------------------------
\* C20: connectedToWiFi is false in Idle, JoiningClientNetwork and
\* HostOnlyFallback and stays true all through Reconnecting; a
\* reconnection whose final status read fails clears it. No handler runs
\* while the state is Reconnecting, so a handler that reads the flag as
\* true runs in ClientJoinedAndHostActive.
\* ------------------------------------------------------------------------
C20_FlagByState ==
  /\ [](ConnectionState \in {"Idle", "JoiningClientNetwork",
                             "HostOnlyFallback"} => ~connectedToWiFi)
  /\ [](ConnectionState = "Reconnecting" => connectedToWiFi)
  /\ [][/\ (pc = "reconnect_result" /\ wlStatus # WL_CONNECTED /\ pc' # pc)
            => (~connectedToWiFi' /\ ConnectionState' = "HostOnlyFallback")
        /\ (served' # served /\ served'.wifiConnected)
            => (ConnectionState = "ClientJoinedAndHostActive"
                  /\ ConnectionState' = ConnectionState)]_vars

\* Three reconnection probes have been made without success: the state is
\* Reconnecting and the flag is still set.
C20_Witness ==
  /\ ConnectionState = "Reconnecting"
  /\ pc = "reconnect_loop"
  /\ loopAttempts = 3
  /\ wlStatus = WL_DISCONNECTED
  /\ connectedToWiFi

\* ------------------------------------------------------------------------
\* C21: each call of the driver tick (loop()) advances the connectivity
\* state machine by one step and makes at most one probe, so that requests
\* can be serviced between two consecutive probes of a join or of a
\* reconnection sequence: no more than one probe has been made since the
\* server last had the chance to handle a request.
\* connectToWiFi() and the reconnection block of loop() run all their
\* probes in one blocking while loop, so this is violated.
\* ------------------------------------------------------------------------
C21_Original ==
  /\ pc \in ReconnectPcs => loopAttempts <= 1
  /\ pc \in JoinPcs => attempts <= 1

\* The payload writes of this iteration, in the order they were made.
DataWrites ==
  SelectSeq(chan, LAMBDA w : w.kind = "data")

\* ------------------------------------------------------------------------
\* C22: for every payload length n >= 0 the payload of a part is written
\* as consecutive, non-overlapping chunks in order (the k-th chunk starts
\* where the one before it ended, the first at 0), each of 1 to 4096
\* bytes and all but the last of exactly 4096; no chunk goes past n; and
\* when the part is finished the chunk sizes add up to n, the
\* Content-Length of the part header, so that n = 0 gives no write.
\* ------------------------------------------------------------------------
C22_PayloadInBoundedChunks ==
  /\ \A k \in 1..Len(DataWrites) :
       /\ DataWrites[k].off = (k - 1) * bufSize
       /\ DataWrites[k].len \in 1..bufSize
       /\ k < Len(DataWrites) => DataWrites[k].len = bufSize
       /\ DataWrites[k].off + DataWrites[k].len <= jpg_size
  /\ pc \in {"s_chunk", "s_cleanup", "s_delay"} =>
       /\ Len(Headers) = 1
       /\ Headers[1].len = jpg_size
  /\ pc \in {"s_cleanup", "s_delay"} =>
       /\ PayloadBytes(chan) = jpg_size
       /\ jpg_size = 0 <=> DataWrites = <<>>

\* A part of 12345 bytes has been written in three full chunks and a last
\* chunk of 57 bytes.
C22_Witness ==
  /\ pc = "s_cleanup"
  /\ jpg_size = 3 * bufSize + 57
  /\ Len(DataWrites) = 4
  /\ DataWrites[3].len = bufSize
  /\ DataWrites[4] = Write("data", 3 * bufSize, 57)

\* ------------------------------------------------------------------------
\* C23 as stated: in each iteration the liveness check comes after the
\* frame release and before the inter-frame delay; when the channel is
\* disconnected once the part is written and the frame released, the
\* session returns without waiting the 100 ms first.
\* The loop body ends with delay(100) (line 344) and the check is the
\* while test that follows it (line 292), so the wait comes first.
\* ------------------------------------------------------------------------
C23_Original ==
  [][(pc = "s_delay" /\ ~clientConnected /\ pc' # pc) =>
       pc' \notin StreamPcs]_vars

\* ------------------------------------------------------------------------
\* C23: in each iteration the frame release comes first, then the
\* inter-frame delay, then the liveness check: when the channel is
\* disconnected once the part is written, the session still waits the
\* 100 ms, with nothing borrowed or allocated, and returns at the check
\* that follows, without acquiring another frame.
\* ------------------------------------------------------------------------
C23_DelayBeforeLivenessCheck ==
  /\ [](pc = "s_delay" => (fb = "NULL" /\ fbBorrowed = 0 /\ heapLive = 0))
  /\ [][/\ (pc = "s_cleanup" /\ pc' # pc) => pc' = "s_delay"
        /\ (pc = "s_delay" /\ pc' # pc) =>
             (pc' = "s_while" /\ UNCHANGED <<chan, iter, fbBorrowed>>)
        /\ (pc = "s_while" /\ ~clientConnected /\ pc' # pc) =>
             pc' \notin StreamPcs]_vars

\* The channel is disconnected when a part of a raw frame has been
\* written and the buffer freed; the delay is still to come.
C23_Witness ==
  /\ pc = "s_delay"
  /\ ~clientConnected
  /\ jpg_size > 0
  /\ PartComplete(jpg_size)
  /\ iter.frees = 1

\* A position at which server.handleClient() is running or about to run a
\* handler.
HandlerPcs ==
  {"loop_handle"} \cup StreamPcs

\* ------------------------------------------------------------------------
\* C24: no request handler runs while the connection state is Idle,
\* JoiningClientNetwork or Reconnecting. Handlers run only after setup()
\* has finished the join and started the access point; the steps of a join
\* or of a reconnection sequence serve no request and touch neither the
\* channel nor the sensor snapshot, and the sequence goes on to its result
\* without visiting a handler; so every request is served in
\* ClientJoinedAndHostActive or in HostOnlyFallback.
\* ------------------------------------------------------------------------
C24_NoHandlerInTransition ==
  /\ [](pc \in HandlerPcs =>
          /\ SetupDone
          /\ APActive
          /\ ConnectionState \in {"ClientJoinedAndHostActive",
                                  "HostOnlyFallback"})
  /\ [](~SetupDone => (served = NoRequest /\ ~clientConnected))
  /\ [][/\ (served' # served) =>
             /\ pc = "loop_handle"
             /\ ConnectionState \in {"ClientJoinedAndHostActive",
                                     "HostOnlyFallback"}
        /\ (pc \in JoinPcs \cup ReconnectPcs) =>
             UNCHANGED <<served, sensorVars, chan, clientConnected>>
        /\ (pc = "reconnect_loop" /\ pc' # pc) => pc' = "reconnect_result"
        /\ (pc = "join_loop" /\ pc' # pc) => pc' = "join_result"]_vars

\* A status page has been served after a reconnection ran to exhaustion:
\* the join had succeeded (AP+STA mode) and the handler saw the flag
\* cleared.
C24_Witness ==
  /\ pc = "loop_check"
  /\ served.path = "/network-status"
  /\ ~served.wifiConnected
  /\ wifiMode = "WIFI_AP_STA"
  /\ ConnectionState = "HostOnlyFallback"

\* ------------------------------------------------------------------------
\* C25: the outcome of an initial join and of a reconnection is decided by
\* the status read made after the probe loop has ended (lines 140 and
\* 228): the state becomes, or stays, ClientJoinedAndHostActive exactly
\* when that read reports WL_CONNECTED, whether or not the loop used up
\* its budget and whatever its own reads saw.
\* ------------------------------------------------------------------------
C25_FinalReadDecides ==
  [][/\ (pc = "join_result" /\ pc' # pc) =>
          /\ connectedToWiFi' <=> wlStatus = WL_CONNECTED
          /\ ConnectionState' = IF wlStatus = WL_CONNECTED
                                THEN "ClientJoinedAndHostActive"
                                ELSE "HostOnlyFallback"
     /\ (pc = "reconnect_result" /\ pc' # pc) =>
          /\ connectedToWiFi' <=> wlStatus = WL_CONNECTED
          /\ ConnectionState' = IF wlStatus = WL_CONNECTED
                                THEN "ClientJoinedAndHostActive"
                                ELSE "HostOnlyFallback"]_vars

\* The reconnection loop has used up its ten probes without reading a
\* connection, and the link is up for the read that decides.
C25_Witness ==
  /\ pc = "reconnect_result"
  /\ loopAttempts = MaxReconnectAttempts
  /\ ~sawConnected
  /\ wlStatus = WL_CONNECTED
  /\ connectedToWiFi

\* ------------------------------------------------------------------------
\* C26: a POST /update-sensor changes only the fields whose key and
\* delimiter were matched in its body: every stored field that is not
\* matched has the value it had before the request, also in a request
\* answered 200 because another field was matched; and the timestamp moves
\* only in a request that matched a field.
\* ------------------------------------------------------------------------
C26_UnmatchedFieldsKept ==
  [][(pc = "loop_handle" /\ UpdateServed' /\ pc' = "loop_check") =>
       /\ \A f \in DOMAIN sensorData :
            f \notin served'.update.fields =>
              sensorData'[f] = sensorData[f]
       /\ DOMAIN sensorData' = DOMAIN sensorData
       /\ served'.update.fields = {} =>
            lastDataReceived' = lastDataReceived]_vars

\* After the full body, the body {"humidity":60,} has been answered 200:
\* humidity is 60.0, temperature and waterSensor are those of the full
\* body.
C26_Witness ==
  /\ UpdateServed
  /\ served.update.body = "humidityInBraces"
  /\ served.update.fields = {"humidity"}
  /\ served.status = 200
  /\ sensorData = [temperature |-> 235, humidity |-> 600, waterSensor |-> 1]

====
